---- MODULE Spec2Model ----
(***************************************************************************)
(* Model of main.py: the /assign_buddy_work/ endpoint, the detached        *)
(* background task process_buddy_work_background, and the three network    *)
(* clients (create_airtable_record, call_buddy_api,                        *)
(* update_airtable_record).                                                *)
(*                                                                         *)
(* The two external services are the environment: every network call      *)
(* draws its outcome (a response with a status code and a body, or a       *)
(* transport exception, together with whether the store applied the write) *)
(* from the sets below.  Python's exception flow is followed literally:    *)
(* an HTTPException raised inside a try block is caught by the enclosing   *)
(* "except Exception" clause of the same function.                         *)
(*                                                                         *)
(* asyncio runs one coroutine at a time and switches only at an await, so  *)
(* each action is the code between two awaits.                             *)
(***************************************************************************)
EXTENDS Naturals, Sequences, FiniteSets, TLC

\* Number of inbound HTTP requests considered.
NumRequests == 2

Requests == 1 .. NumRequests

\* main.py:33
MAX_RETRIES == 3

\* main.py:35 (the literal is abbreviated)
REQUIRED_AUTH_KEY == "linkbricks-key"

\* auth_key values a caller may send
AuthKeys == {REQUIRED_AUTH_KEY, "wrong-key"}

\* str(datetime.datetime.utcnow().isoformat()): only presence is modelled
NoDate == ""
UtcNowIso == "utcnow"

-----------------------------------------------------------------------------
(* HTTP responses and exceptions *)

\* httpx.Response.is_success: 2xx
is_success(code) == code >= 200 /\ code < 300

\* status codes the collaborators answer with
StatusCodes == {200, 400, 503}

\* fastapi.HTTPException(status_code, detail)
HTTPException(code, detail) == [cls |-> "HTTPException", status_code |-> code, detail |-> detail]

\* any other exception class, with its message
OtherException(cls, msg) == [cls |-> cls, status_code |-> 0, detail |-> msg]

\* str(e): starlette's HTTPException prints "<status_code>: <detail>"
Str(e) == IF e.cls = "HTTPException" THEN ToString(e.status_code) \o ": " \o e.detail ELSE e.detail

\* response.text of a non-success response
ErrorText == "upstream error"

-----------------------------------------------------------------------------
(* Outcomes of one network call, as the client sees it.  landed says       *)
(* whether the collaborator applied the request: always for a 2xx answer,  *)
(* never for another answer, either way when the answer never arrives.     *)

Resp(code, body) == [t |-> "resp", code |-> code, body |-> body, exc |-> "", landed |-> is_success(code)]

Exc(exc, landed) == [t |-> "exc", code |-> 0, body |-> "", exc |-> exc, landed |-> landed]

\* bodies of a record-store answer: well-formed JSON with the expected
\* fields, JSON lacking them, or bytes response.json() cannot parse
StoreBodies == {"json", "json_missing_fields", "not_json"}

\* record-store answers to POST and PATCH; httpx.TimeoutException and any
\* other transport error
StoreOutcomes ==
    {Resp(c, b) : c \in {sc \in StatusCodes : is_success(sc)}, b \in StoreBodies}
    \cup {Resp(c, ErrorText) : c \in {sc \in StatusCodes : ~is_success(sc)}}
    \cup {Exc(e, l) : e \in {"TimeoutException", "ConnectError"}, l \in BOOLEAN}

\* result of a call: it returns a value or raises
Return(v) == [k |-> "return", value |-> v, sleep |-> 0, err |-> OtherException("", "")]

Raise(e) == [k |-> "raise", value |-> "", sleep |-> 0, err |-> e]

\* the loop of update_airtable_record sleeps and goes on to the next attempt
Retry(delay) == [k |-> "retry", value |-> "", sleep |-> delay, err |-> OtherException("", "")]

\* message of the exception response.json() or a subscript raises
JsonErrorText == "Expecting value"

KeyErrorText == "'records'"

-----------------------------------------------------------------------------
(* create_airtable_record *)

\* fields of the record the POST body carries (main.py:121-137); user_id is
\* request.id, which stands for all the fields copied from the request
CreateFields(r) ==
    [user_id |-> r, status |-> "running", start_date |-> UtcNowIso,
     result |-> "", end_date |-> NoDate]

\* create_airtable_record without the is_success test: any answer is read
\* as the created record
create_airtable_record_unchecked(out, new_id) ==
    IF out.t = "exc"
    THEN Raise(HTTPException(500, "Failed to create record: " \o out.exc))
    ELSE Return(new_id)

\* create_airtable_record taking a timed-out POST as created
create_airtable_record_optimistic(out, new_id) ==
    IF out.t = "exc"
    THEN IF out.exc = "TimeoutException"
         THEN Return(new_id)
         ELSE Raise(HTTPException(500, "Failed to create record: " \o out.exc))
    ELSE IF is_success(out.code)
    THEN IF out.body = "json"
         THEN Return(new_id)
         ELSE Raise(HTTPException(500, "Failed to create record: " \o
                      (IF out.body = "not_json" THEN JsonErrorText ELSE KeyErrorText)))
    ELSE Raise(HTTPException(500, "Failed to create record: " \o
                 Str(HTTPException(out.code, "Failed to create record: " \o out.body))))

\* what create_airtable_record does with the outcome of its POST; new_id is
\* data['records'][0]['id'] of a well-formed answer
create_airtable_record(out, new_id) ==
    IF out.t = "exc"
    THEN Raise(HTTPException(500, "Failed to create record: " \o out.exc))
    ELSE IF is_success(out.code)
    THEN IF out.body = "json"
         THEN Return(new_id)
         ELSE Raise(HTTPException(500, "Failed to create record: " \o
                      (IF out.body = "not_json" THEN JsonErrorText ELSE KeyErrorText)))
    ELSE Raise(HTTPException(500, "Failed to create record: " \o
                 Str(HTTPException(out.code, "Failed to create record: " \o out.body))))

-----------------------------------------------------------------------------
(* call_buddy_api *)

\* JSON payloads of a successful prediction answer
Payload(kind, has_text, text) == [kind |-> kind, has_text |-> has_text, text |-> text]

BuddyPayloads ==
    {Payload("dict", TRUE, "4"), Payload("dict", FALSE, ""),
     Payload("list", FALSE, ""), Payload("not_json", FALSE, "")}

NoPayload == Payload("", FALSE, "")

\* the prediction service's answers; the client has no timeout, so the only
\* exception is a transport error
BuddyOutcomes ==
    {Resp(c, p) : c \in {sc \in StatusCodes : is_success(sc)}, p \in BuddyPayloads}
    \cup {Resp(c, NoPayload) : c \in {sc \in StatusCodes : ~is_success(sc)}}
    \cup {Exc("ConnectError", FALSE)}

call_buddy_api(out) ==
    IF out.t = "exc"
    THEN Raise(HTTPException(500, "Buddy API call failed: " \o out.exc))
    ELSE IF is_success(out.code)
    THEN IF out.body.kind = "not_json"
         THEN Raise(HTTPException(500, "Buddy API call failed: " \o JsonErrorText))
         ELSE Return(out.body)
    ELSE Raise(HTTPException(500, "Buddy API call failed: " \o
                 Str(HTTPException(out.code, "Buddy API call failed: " \o ErrorText))))

\* buddy_result.get("text", "No result text available") (main.py:179)
SENTINEL == "No result text available"

\* buddy_result["text"]: a missing key raises KeyError
get_text_subscript(buddy_result) ==
    IF buddy_result.kind = "dict" /\ buddy_result.has_text
    THEN Return(buddy_result.text)
    ELSE Raise(OtherException("KeyError", "'text'"))

get_text(buddy_result) ==
    IF buddy_result.kind = "dict"
    THEN Return(IF buddy_result.has_text THEN buddy_result.text ELSE SENTINEL)
    ELSE Raise(OtherException("AttributeError", "'list' object has no attribute 'get'"))

-----------------------------------------------------------------------------
(* update_airtable_record *)

RECURSIVE Pow2(_)
Pow2(n) == IF n = 0 THEN 1 ELSE 2 * Pow2(n - 1)

\* the loop with "attempt <= MAX_RETRIES - 1": it sleeps after the last
\* attempt too
update_attempt_off_by_one(attempt, out) ==
    IF out.t = "resp"
    THEN IF is_success(out.code)
         THEN IF out.body = "not_json"
              THEN Raise(HTTPException(500, "Failed to update record: " \o JsonErrorText))
              ELSE Return("json")
         ELSE IF out.code >= 500 /\ attempt <= MAX_RETRIES - 1
         THEN Retry(Pow2(attempt))
         ELSE Raise(HTTPException(500, "Failed to update record: " \o
                      Str(HTTPException(out.code, "Failed to update record: " \o out.body))))
    ELSE IF out.exc = "TimeoutException"
    THEN IF attempt <= MAX_RETRIES - 1
         THEN Retry(Pow2(attempt))
         ELSE Raise(HTTPException(504, "Timeout while updating Airtable record"))
    ELSE Raise(HTTPException(500, "Failed to update record: " \o out.exc))

\* the loop retrying on "status_code >= 400"
update_attempt_retry_4xx(attempt, out) ==
    IF out.t = "resp"
    THEN IF is_success(out.code)
         THEN IF out.body = "not_json"
              THEN Raise(HTTPException(500, "Failed to update record: " \o JsonErrorText))
              ELSE Return("json")
         ELSE IF out.code >= 400 /\ attempt < MAX_RETRIES - 1
         THEN Retry(Pow2(attempt))
         ELSE Raise(HTTPException(500, "Failed to update record: " \o
                      Str(HTTPException(out.code, "Failed to update record: " \o out.body))))
    ELSE IF out.exc = "TimeoutException"
    THEN IF attempt < MAX_RETRIES - 1
         THEN Retry(Pow2(attempt))
         ELSE Raise(HTTPException(504, "Timeout while updating Airtable record"))
    ELSE Raise(HTTPException(500, "Failed to update record: " \o out.exc))

\* one iteration of the loop "for attempt in range(MAX_RETRIES)" given the
\* outcome of its PATCH (main.py:71-93)
update_attempt(attempt, out) ==
    IF out.t = "resp"
    THEN IF is_success(out.code)
         THEN IF out.body = "not_json"
              THEN Raise(HTTPException(500, "Failed to update record: " \o JsonErrorText))
              ELSE Return("json")
         ELSE IF out.code >= 500 /\ attempt < MAX_RETRIES - 1
         THEN Retry(Pow2(attempt))
         ELSE Raise(HTTPException(500, "Failed to update record: " \o
                      Str(HTTPException(out.code, "Failed to update record: " \o out.body))))
    ELSE IF out.exc = "TimeoutException"
    THEN IF attempt < MAX_RETRIES - 1
         THEN Retry(Pow2(attempt))
         ELSE Raise(HTTPException(504, "Timeout while updating Airtable record"))
    ELSE Raise(HTTPException(500, "Failed to update record: " \o out.exc))

\* update_data of the two branches of process_buddy_work_background
UpdateData(status, result) == [status |-> status, result |-> result, end_date |-> UtcNowIso]

finished_update(result_text) == UpdateData("finished", result_text)

\* the handler's update_data with the status of the try block
failed_update_as_finished(error) == UpdateData("finished", "Processing failed: " \o Str(error))

\* the handler telling a timeout from a failure by the error's status code
failed_update_timeout(error) ==
    UpdateData(IF error.status_code = 504 THEN "timeout" ELSE "failed",
               "Processing failed: " \o Str(error))

failed_update(error) == UpdateData("failed", "Processing failed: " \o Str(error))

-----------------------------------------------------------------------------
(* State *)

VARIABLES
    req,      \* per request: position of assign_buddy_work and its HTTP response
    store,    \* the record store's table: record id n is store[n]
    job,      \* per request: the background task added by add_task
    calls,    \* per request: the network calls made on its behalf so far
    call      \* one update_airtable_record call observed on its own

vars == <<req, store, job, calls, call>>

NoResponse == [status_code |-> 0, record_id |-> 0, status |-> ""]

NoUpdate == [status |-> "", result |-> "", end_date |-> NoDate]

\* no answer yet
NoOutcome == Exc("", FALSE)

NoCall ==
    [state |-> "idle", update_data |-> NoUpdate, attempt |-> 0, seen |-> << >>,
     sleeps |-> << >>, status_code |-> 0]

Init ==
    /\ req = [r \in Requests |-> [pc |-> "idle", auth_key |-> "", response |-> NoResponse]]
    /\ store = << >>
    /\ job = [r \in Requests |->
                [pc |-> "none", record_id |-> 0, branch |-> "", update_data |-> NoUpdate,
                 attempt |-> 0]]
    /\ calls = [r \in Requests |->
                  [create |-> 0, created |-> NoOutcome, invoke |-> 0, invoked |-> NoOutcome,
                   patch |-> 0, update |-> << >>]]
    /\ call = NoCall

-----------------------------------------------------------------------------
(* assign_buddy_work *)

\* the handler swallowing the failure of create_airtable_record and
\* acknowledging all the same
assign_response_swallow(created) ==
    [status_code |-> 200, record_id |-> IF created.k = "return" THEN created.value ELSE 0,
     status |-> "running"]

\* the response of assign_buddy_work given what create_airtable_record did
\* (main.py:157-171)
assign_response(created) ==
    IF created.k = "return"
    THEN [status_code |-> 200, record_id |-> created.value, status |-> "running"]
    ELSE [status_code |-> HTTPException(500, "Failed to initiate task: " \o Str(created.err)).status_code,
          record_id |-> 0, status |-> ""]

\* add_task placed before the create call's result is known
adds_task_always(created) == TRUE

\* the handler returning without add_task
adds_task_never(created) == FALSE

\* whether background_tasks.add_task is reached (main.py:161)
adds_task(created) == created.k = "return"

\* the auth check left out
auth_ok_any(key) == TRUE

\* main.py:154-155: the auth check; a correct key goes on to the create POST
auth_ok(key) == key = REQUIRED_AUTH_KEY

Receive(r, key) ==
    /\ req[r].pc = "idle"
    /\ IF auth_ok(key)
       THEN /\ req' = [req EXCEPT ![r] = [@ EXCEPT !.pc = "creating", !.auth_key = key]]
            /\ calls' = [calls EXCEPT ![r].create = @ + 1]
       ELSE /\ req' = [req EXCEPT ![r] = [pc |-> "responded", auth_key |-> key,
                          response |-> [status_code |-> 403, record_id |-> 0, status |-> ""]]]
            /\ UNCHANGED calls
    /\ UNCHANGED <<store, job, call>>

\* the create POST comes back (or fails); the handler runs to its return
CreateReturn(r, out) ==
    /\ req[r].pc = "creating"
    /\ LET created == create_airtable_record(out, Len(store) + 1) IN
       /\ store' = IF out.landed THEN Append(store, CreateFields(r)) ELSE store
       /\ req' = [req EXCEPT ![r].pc = "responded", ![r].response = assign_response(created)]
       /\ job' = IF adds_task(created)
                 THEN [job EXCEPT ![r].pc = "scheduled", ![r].record_id = created.value]
                 ELSE job
    /\ calls' = [calls EXCEPT ![r].created = out]
    /\ UNCHANGED call

-----------------------------------------------------------------------------
(* process_buddy_work_background *)

\* the task starts after the response was sent and issues the prediction call
StartJob(r) ==
    /\ job[r].pc = "scheduled"
    /\ job' = [job EXCEPT ![r].pc = "invoking"]
    /\ calls' = [calls EXCEPT ![r].invoke = @ + 1]
    /\ UNCHANGED <<req, store, call>>

\* buddy_result.get read outside the try block: its AttributeError ends the
\* task
after_invoke_get_unhandled(out) ==
    LET called == call_buddy_api(out) IN
    IF called.k = "raise"
    THEN [pc |-> "updating", branch |-> "except", update_data |-> failed_update(called.err)]
    ELSE LET text == get_text(called.value) IN
         IF text.k = "raise"
         THEN [pc |-> "done", branch |-> "", update_data |-> NoUpdate]
         ELSE [pc |-> "updating", branch |-> "try", update_data |-> finished_update(text.value)]

\* a retry loop around call_buddy_api: a failed call is issued again
after_invoke_retry_invoke(out) ==
    LET called == call_buddy_api(out) IN
    IF called.k = "raise"
    THEN [pc |-> "scheduled", branch |-> "", update_data |-> NoUpdate]
    ELSE LET text == get_text(called.value) IN
         IF text.k = "raise"
         THEN [pc |-> "updating", branch |-> "except", update_data |-> failed_update(text.err)]
         ELSE [pc |-> "updating", branch |-> "try", update_data |-> finished_update(text.value)]

\* main.py:178-188 and 200-209: the branch taken after the prediction call
\* and the update_data it builds
after_invoke(out) ==
    LET called == call_buddy_api(out) IN
    IF called.k = "raise"
    THEN [pc |-> "updating", branch |-> "except", update_data |-> failed_update(called.err)]
    ELSE LET text == get_text(called.value) IN
         IF text.k = "raise"
         THEN [pc |-> "updating", branch |-> "except", update_data |-> failed_update(text.err)]
         ELSE [pc |-> "updating", branch |-> "try", update_data |-> finished_update(text.value)]

BuddyReturn(r, out) ==
    /\ job[r].pc = "invoking"
    /\ LET next == after_invoke(out) IN
       /\ job' = [job EXCEPT ![r].pc = next.pc, ![r].branch = next.branch,
                             ![r].update_data = next.update_data, ![r].attempt = 0]
       /\ calls' = [calls EXCEPT ![r].invoked = out,
                                 ![r].update = IF next.pc = "updating"
                                               THEN Append(@, next.update_data) ELSE @]
    /\ UNCHANGED <<req, store, call>>

\* the PATCH url built from a module-level "last record id" instead of the
\* task's own record_id
Patched_latest(table, id, fields) ==
    [table EXCEPT ![Len(table)] = [@ EXCEPT !.status = fields.status, !.result = fields.result,
                                            !.end_date = fields.end_date]]

\* the store applies a PATCH of fields to record id
Patched(table, id, fields) ==
    [table EXCEPT ![id] = [@ EXCEPT !.status = fields.status, !.result = fields.result,
                                    !.end_date = fields.end_date]]

\* the handler without its inner try: the failure of the second update
\* leaves the task as an unhandled exception
on_update_error_reraise(branch, err) ==
    IF branch = "try"
    THEN [pc |-> "updating", branch |-> "except", update_data |-> failed_update(err)]
    ELSE [pc |-> "crashed", branch |-> branch, update_data |-> NoUpdate]

\* what process_buddy_work_background does when update_airtable_record
\* raises: in the try block the handler of main.py:200 sends the failure
\* update; in the handler itself the error is logged (main.py:218-219)
on_update_error(branch, err) ==
    IF branch = "try"
    THEN [pc |-> "updating", branch |-> "except", update_data |-> failed_update(err)]
    ELSE [pc |-> "done", branch |-> branch, update_data |-> NoUpdate]

\* one PATCH of the current update call comes back (or fails)
PatchReturn(r, out) ==
    /\ job[r].pc = "updating"
    /\ LET j == job[r]
           step == update_attempt(j.attempt, out)
           handler == on_update_error(j.branch, step.err)
       IN
       /\ store' = IF out.landed THEN Patched(store, j.record_id, j.update_data) ELSE store
       /\ IF step.k = "return"
          THEN /\ job' = [job EXCEPT ![r].pc = "done"]
               /\ calls' = [calls EXCEPT ![r].patch = @ + 1]
          ELSE IF step.k = "retry"
          THEN /\ job' = [job EXCEPT ![r].attempt = @ + 1]
               /\ calls' = [calls EXCEPT ![r].patch = @ + 1]
          ELSE IF handler.pc = "updating"
          THEN /\ job' = [job EXCEPT ![r].branch = handler.branch,
                                     ![r].update_data = handler.update_data,
                                     ![r].attempt = 0]
               /\ calls' = [calls EXCEPT ![r].patch = @ + 1,
                                         ![r].update = Append(@, handler.update_data)]
          ELSE /\ job' = [job EXCEPT ![r].pc = handler.pc]
               /\ calls' = [calls EXCEPT ![r].patch = @ + 1]
    /\ UNCHANGED <<req, call>>

-----------------------------------------------------------------------------
(* update_airtable_record on its own: one call with update_data for record *)
(* 1, every sequence of answers, with the attempts and sleeps it makes     *)

InitUpdate ==
    /\ req = [r \in Requests |-> [pc |-> "idle", auth_key |-> "", response |-> NoResponse]]
    /\ job = [r \in Requests |->
                [pc |-> "none", record_id |-> 0, branch |-> "", update_data |-> NoUpdate,
                 attempt |-> 0]]
    /\ calls = [r \in Requests |->
                  [create |-> 0, created |-> NoOutcome, invoke |-> 0, invoked |-> NoOutcome,
                   patch |-> 0, update |-> << >>]]
    /\ store = <<CreateFields(1)>>
    /\ \E data \in {finished_update("4"), finished_update(SENTINEL),
                     failed_update(call_buddy_api(Exc("ConnectError", FALSE)).err)} :
          call = [NoCall EXCEPT !.state = "running", !.update_data = data]

UpdateAttempt(out) ==
    /\ call.state = "running"
    /\ LET step == update_attempt(call.attempt, out) IN
       /\ store' = IF out.landed THEN Patched(store, 1, call.update_data) ELSE store
       /\ call' = [call EXCEPT
                     !.seen = Append(@, out),
                     !.state = IF step.k = "retry" THEN "running"
                               ELSE IF step.k = "return" THEN "returned" ELSE "raised",
                     !.attempt = IF step.k = "retry" THEN @ + 1 ELSE @,
                     !.sleeps = IF step.k = "retry" THEN Append(@, step.sleep) ELSE @,
                     !.status_code = IF step.k = "raise" THEN step.err.status_code ELSE @]
    /\ UNCHANGED <<req, job, calls>>

NextUpdate == \E out \in StoreOutcomes : UpdateAttempt(out)

SpecUpdate == InitUpdate /\ [][NextUpdate]_vars

-----------------------------------------------------------------------------

Next ==
    \E r \in Requests :
        \/ \E key \in AuthKeys : Receive(r, key)
        \/ \E out \in StoreOutcomes : CreateReturn(r, out)
        \/ StartJob(r)
        \/ \E out \in BuddyOutcomes : BuddyReturn(r, out)
        \/ \E out \in StoreOutcomes : PatchReturn(r, out)

Spec == Init /\ [][Next]_vars

\* every PATCH comes back, fails or hits the client's 30 s timeout
\* (AIRTABLE_TIMEOUT), and the event loop runs a task that is scheduled
FairSpec ==
    /\ Spec
    /\ \A r \in Requests : WF_vars(StartJob(r))
    /\ \A r \in Requests : WF_vars(\E out \in StoreOutcomes : PatchReturn(r, out))

TypeOK ==
    /\ \A r \in Requests : req[r].pc \in {"idle", "creating", "responded"}
    /\ \A r \in Requests : job[r].pc \in {"none", "scheduled", "invoking", "updating", "done"}
    /\ \A r \in Requests : job[r].attempt \in 0 .. MAX_RETRIES - 1

\* FairSpec, and every prediction call comes back as well (the client sets
\* no timeout, so this is an assumption on the prediction service)
LiveSpec ==
    /\ FairSpec
    /\ \A r \in Requests : WF_vars(\E out \in BuddyOutcomes : BuddyReturn(r, out))

-----------------------------------------------------------------------------
(* Properties *)

RecordsOf(r) == {i \in DOMAIN store : store[i].user_id = r}

Accepted(r) == req[r].pc = "responded" /\ req[r].response.status_code = 200

\* the create call of request r came back and create_airtable_record raised
CreateFailed(r) ==
    /\ req[r].pc = "responded"
    /\ calls[r].create = 1
    /\ ~(calls[r].created.t = "resp" /\ is_success(calls[r].created.code)
         /\ calls[r].created.body = "json")

\* C1: a request with the correct auth_key whose create call succeeded has
\* exactly one record, created with status "running" and a start timestamp,
\* and that record exists whenever the response (record_id, "running") does;
\* no request is acknowledged without its record.
C1_RecordBeforeResponse ==
    \A r \in Requests :
        /\ Accepted(r) =>
             /\ req[r].auth_key = REQUIRED_AUTH_KEY
             /\ req[r].response.status = "running"
             /\ RecordsOf(r) = {req[r].response.record_id}
             /\ store[req[r].response.record_id].start_date # NoDate
             /\ calls[r].patch = 0 => store[req[r].response.record_id].status = "running"
        /\ (req[r].pc = "responded" /\ calls[r].create = 1 /\ ~CreateFailed(r)) => Accepted(r)

C1_Witness ==
    \E r \in Requests :
        /\ Accepted(r)
        /\ job[r].pc = "scheduled"
        /\ store[req[r].response.record_id].status = "running"

\* C5: a request whose auth_key differs from the shared secret is answered
\* 403 and causes no create call, no background job, no work-execution call
\* and no update call, and no record.
C5_UnauthorizedDoesNothing ==
    \A r \in Requests :
        (req[r].pc # "idle" /\ req[r].auth_key # REQUIRED_AUTH_KEY) =>
            /\ req[r].pc = "responded"
            /\ req[r].response = [status_code |-> 403, record_id |-> 0, status |-> ""]
            /\ calls[r].create = 0 /\ calls[r].invoke = 0 /\ calls[r].patch = 0
            /\ calls[r].update = << >>
            /\ job[r].pc = "none"
            /\ RecordsOf(r) = {}

C5_Witness ==
    \E r \in Requests, q \in Requests :
        /\ req[r].pc = "responded" /\ req[r].auth_key = "wrong-key"
        /\ job[q].pc = "done"

\* C6: when the create call fails (a non-success answer, a transport error
\* or an answer that cannot be read), the response is 500 or 502, no
\* background job is scheduled and no work-execution or update call is made.
C6_CreateFailureIsSynchronous ==
    \A r \in Requests :
        CreateFailed(r) =>
            /\ req[r].response.status_code \in {500, 502}
            /\ req[r].response.record_id = 0
            /\ job[r].pc = "none"
            /\ calls[r].invoke = 0 /\ calls[r].patch = 0 /\ calls[r].update = << >>

C6_Witness ==
    \E r \in Requests :
        /\ CreateFailed(r)
        /\ calls[r].created.t = "resp" /\ calls[r].created.code = 503
        /\ req[r].response.status_code = 500

Terminal == {"finished", "failed", "timeout"}

\* C2: a record's stored status and result never change once the status is
\* terminal (so the status changes at most once, from "running").
C2_TerminalStatusIsFinal ==
    [][\A i \in DOMAIN store :
          store[i].status \in Terminal =>
              /\ store'[i].status = store[i].status
              /\ store'[i].result = store[i].result]_vars

\* the work-execution call of r's job came back with a JSON object holding text
SucceededWithText(r) ==
    /\ calls[r].invoked.t = "resp"
    /\ is_success(calls[r].invoked.code)
    /\ calls[r].invoked.body.kind = "dict"
    /\ calls[r].invoked.body.has_text

\* C3: when the work-execution call succeeded with text t, every update
\* payload of the job has status "finished" and result t, and the job's
\* record never holds status "failed".
C3_SuccessOnlyWritesFinished ==
    \A r \in Requests :
        SucceededWithText(r) =>
            /\ \A i \in DOMAIN calls[r].update :
                  /\ calls[r].update[i].status = "finished"
                  /\ calls[r].update[i].result = calls[r].invoked.body.text
            /\ store[job[r].record_id].status # "failed"

\* C4: a job calls update_airtable_record once and so causes at most
\* MAX_RETRIES PATCH attempts.
C4_OneUpdateCallPerJob ==
    \A r \in Requests :
        /\ Len(calls[r].update) <= 1
        /\ calls[r].patch <= MAX_RETRIES

BuddyReturned(r) == calls[r].invoked # NoOutcome

\* C7: once a job's work-execution call has returned or raised, whatever
\* the outcome, a PATCH for its record is eventually attempted.
C7_UpdateAlwaysAttempted ==
    \A r \in Requests : BuddyReturned(r) ~> (calls[r].patch >= 1)

C7_Witness ==
    \E r \in Requests :
        /\ calls[r].invoked.t = "resp" /\ is_success(calls[r].invoked.code)
        /\ calls[r].invoked.body.kind = "list"
        /\ calls[r].patch >= 1

\* the work-execution call failed: a non-success answer or a transport error
BuddyFailed(r) ==
    \/ calls[r].invoked.t = "exc" /\ calls[r].invoked.exc # ""
    \/ calls[r].invoked.t = "resp" /\ ~is_success(calls[r].invoked.code)

\* C8: when the work-execution call failed, the job sends an update with
\* status "failed" (or "timeout") and a non-empty result text, and never one
\* with status "finished".
C8_FailureBecomesFailedUpdate ==
    \A r \in Requests :
        BuddyFailed(r) =>
            /\ Len(calls[r].update) >= 1
            /\ \A i \in DOMAIN calls[r].update :
                  /\ calls[r].update[i].status \in {"failed", "timeout"}
                  /\ calls[r].update[i].result # ""
            /\ store[job[r].record_id].status # "finished"

C8_Witness ==
    \E r \in Requests :
        /\ calls[r].invoked.t = "resp" /\ calls[r].invoked.code = 503
        /\ job[r].pc = "done"
        /\ store[job[r].record_id].status = "failed"

\* C9: one update call makes at most MAX_RETRIES = 3 PATCH attempts and then
\* has returned or raised; it sleeps 2^attempt (1 s, then 2 s) between
\* attempts and not after the last; answers 503, 503, 200 make it return
\* after 3 attempts.
C9_BoundedRetryWithBackoff ==
    /\ Len(call.seen) <= 3
    /\ Len(call.seen) = 3 => call.state \in {"returned", "raised"}
    /\ call.sleeps = SubSeq(<<1, 2>>, 1, Len(call.sleeps))
    /\ Len(call.sleeps) = IF call.state = "running" THEN Len(call.seen) ELSE Len(call.seen) - 1
    /\ call.seen = <<Resp(503, ErrorText), Resp(503, ErrorText), Resp(200, "json")>> =>
          call.state = "returned" /\ call.sleeps = <<1, 2>>

C9_Witness ==
    /\ call.seen = <<Resp(503, ErrorText), Resp(503, ErrorText), Resp(200, "json")>>
    /\ call.state = "returned"
    /\ store[1].status = call.update_data.status

\* answers after which the loop may go on
Retryable(out) ==
    \/ out.t = "resp" /\ out.code >= 500
    \/ out.t = "exc" /\ out.exc = "TimeoutException"

\* a 4xx answer, or an error that is no timeout
NotRetried(out) ==
    \/ out.t = "resp" /\ out.code >= 400 /\ out.code < 500
    \/ out.t = "exc" /\ out.exc # "TimeoutException"
    \/ out.t = "resp" /\ is_success(out.code) /\ out.body = "not_json"

\* C10: within an update call a further PATCH attempt follows only a 5xx
\* answer or a timeout; a 4xx answer or a non-timeout error ends the call
\* with a failure at once, without a sleep, so that such a first answer
\* gives exactly 1 attempt.
C10_RetryOnlyOn5xxOrTimeout ==
    /\ \A i \in 1 .. Len(call.seen) - 1 : Retryable(call.seen[i])
    /\ (call.seen # << >> /\ NotRetried(call.seen[Len(call.seen)])) =>
          call.state = "raised" /\ Len(call.sleeps) = Len(call.seen) - 1
    /\ (call.seen # << >> /\ NotRetried(call.seen[1])) =>
          Len(call.seen) = 1 /\ call.sleeps = << >>

C10_Witness ==
    /\ call.seen = <<Resp(400, ErrorText)>>
    /\ call.state = "raised"
    /\ store[1].status = "running"

-----------------------------------------------------------------------------

\* C11: a request gets one response, 403, 500 or the 200 "running"
\* acknowledgment; the acknowledgment exists before the job's
\* work-execution call is issued and does not depend on that call coming
\* back, and only an acknowledged request has a work-execution call.
C11_ImmediateResponse ==
    \A r \in Requests :
        /\ req[r].pc = "responded" <=> req[r].response # NoResponse
        /\ req[r].pc = "responded" => req[r].response.status_code \in {200, 403, 500}
        /\ req[r].response.status_code = 200 <=> job[r].pc # "none"
        /\ calls[r].invoke >= 1 => Accepted(r)
        /\ job[r].pc \in {"scheduled", "invoking"} =>
              Accepted(r) /\ req[r].response.status = "running"

C11_Witness ==
    \E r \in Requests :
        /\ Accepted(r)
        /\ job[r].pc = "invoking"
        /\ calls[r].invoked = NoOutcome

\* the work-execution call came back with a JSON object without "text"
SucceededWithoutText(r) ==
    /\ calls[r].invoked.t = "resp"
    /\ is_success(calls[r].invoked.code)
    /\ calls[r].invoked.body.kind = "dict"
    /\ ~calls[r].invoked.body.has_text

\* C12: when the work-execution call succeeds with a payload that has no
\* "text" field, the update built from it has status "finished" and the
\* sentinel as result.
C12_MissingTextGivesSentinel ==
    \A r \in Requests :
        SucceededWithoutText(r) =>
            /\ calls[r].update # << >>
            /\ calls[r].update[1].status = "finished"
            /\ calls[r].update[1].result = "No result text available"

C12_Witness ==
    \E r \in Requests :
        /\ SucceededWithoutText(r)
        /\ job[r].pc = "done"
        /\ store[job[r].record_id].status = "finished"
        /\ store[job[r].record_id].result = "No result text available"

\* the create call of r returned the id of the record it created
CreateSucceeded(r) ==
    /\ calls[r].created.t = "resp" /\ is_success(calls[r].created.code)
    /\ calls[r].created.body = "json"

\* C13: for every record and interleaving, the create of the record has
\* returned before the job's work-execution call is issued, and that call
\* has come back before any update attempt or update of the record.
C13_CreateInvokeUpdateOrder ==
    /\ \A r \in Requests :
          /\ calls[r].invoke >= 1 =>
                /\ CreateSucceeded(r)
                /\ job[r].record_id \in DOMAIN store
                /\ store[job[r].record_id].user_id = r
          /\ (calls[r].patch >= 1 \/ calls[r].update # << >> \/ job[r].pc \in {"updating", "done"}) =>
                calls[r].invoke = 1 /\ BuddyReturned(r)
    /\ \A i \in DOMAIN store :
          store[i].status # "running" => BuddyReturned(store[i].user_id)

C13_Witness ==
    \E r \in Requests, q \in Requests :
        /\ r # q
        /\ job[r].pc = "done" /\ calls[r].patch >= 1
        /\ job[q].pc = "invoking" /\ job[q].record_id < job[r].record_id

\* C14: an accepted request, and no other, has one background job, for the
\* record_id of its response; a job issues one work-execution call; no two
\* jobs have the same record_id.
C14_OneJobOneInvoke ==
    /\ \A r \in Requests :
          /\ calls[r].create <= 1 /\ calls[r].invoke <= 1
          /\ job[r].pc # "none" <=> Accepted(r)
          /\ job[r].pc # "none" => job[r].record_id = req[r].response.record_id
          /\ job[r].pc \in {"invoking", "updating", "done"} => calls[r].invoke = 1
    /\ \A r \in Requests, q \in Requests :
          (r # q /\ job[r].pc # "none" /\ job[q].pc # "none") =>
              job[r].record_id # job[q].record_id

C14_Witness ==
    \E r \in Requests, q \in Requests :
        /\ r # q
        /\ job[r].pc = "done" /\ job[q].pc = "done"
        /\ BuddyFailed(r) /\ calls[r].invoke = 1

\* C15: the background task never ends with an unhandled exception: for
\* every outcome of the work-execution call and of the updates it ends
\* normally, after one or two update calls, a failed last update being
\* logged only.
C15_TaskNeverRaises ==
    \A r \in Requests :
        /\ job[r].pc \in {"none", "scheduled", "invoking", "updating", "done"}
        /\ job[r].pc = "done" =>
              /\ calls[r].patch >= 1
              /\ Len(calls[r].update) \in {1, 2}
              /\ req[r].response.status_code = 200

\* the job ended although no PATCH of either update call was applied: the
\* last update raised
C15_Witness ==
    \E r \in Requests :
        /\ job[r].pc = "done"
        /\ job[r].branch = "except"
        /\ calls[r].patch = 2 * MAX_RETRIES
        /\ store[job[r].record_id].status = "running"

\* C16: with jobs in flight concurrently, a job's record_id is that of its
\* own request's record, and a record holds either what its create wrote or
\* one of the update payloads of its own job: no job changes another's
\* record.
C16_JobsDoNotInterfere ==
    /\ \A r \in Requests :
          job[r].pc # "none" =>
              job[r].record_id \in DOMAIN store /\ store[job[r].record_id].user_id = r
    /\ \A i \in DOMAIN store :
          LET r == store[i].user_id IN
          /\ store[i].start_date = CreateFields(r).start_date
          /\ \/ store[i] = CreateFields(r)
             \/ /\ job[r].record_id = i
                /\ \E k \in DOMAIN calls[r].update :
                      /\ store[i].status = calls[r].update[k].status
                      /\ store[i].result = calls[r].update[k].result
                      /\ store[i].end_date = calls[r].update[k].end_date

C16_Witness ==
    \E r \in Requests, q \in Requests :
        /\ r # q
        /\ job[r].pc = "updating" /\ job[q].pc = "updating"
        /\ job[r].record_id < job[q].record_id
        /\ store[job[r].record_id].status = "running"
        /\ store[job[q].record_id].status = "finished"

\* C18: the only status values written to the store are "running" at
\* create and "finished" or "failed" at update; "timeout" and
\* "assign_failed" are never written.
C18_StatusesWritten ==
    /\ \A i \in DOMAIN store : store[i].status \in {"running", "finished", "failed"}
    /\ \A r \in Requests :
          \A k \in DOMAIN calls[r].update :
              calls[r].update[k].status \in {"finished", "failed"}
    /\ \A r \in Requests :
          CreateFailed(r) => \A i \in RecordsOf(r) : store[i].status = "running"

C18_Witness ==
    \E r \in Requests, q \in Requests :
        /\ CreateFailed(q) /\ RecordsOf(q) # {}
        /\ job[r].pc = "done"
        /\ Len(calls[r].update) = 2
        /\ store[job[r].record_id].status = "failed"

\* C17: when every issued network call comes back and scheduled steps run,
\* every dispatched job ends, after exactly one work-execution call and at
\* most 2 * MAX_RETRIES PATCH attempts.
C17_JobTerminates ==
    /\ \A r \in Requests : (job[r].pc = "scheduled") ~> (job[r].pc = "done")
    /\ [](\A r \in Requests :
            /\ calls[r].patch <= 2 * MAX_RETRIES
            /\ job[r].pc = "done" => calls[r].invoke = 1 /\ calls[r].patch >= 1)

C17_Witness ==
    \E r \in Requests :
        /\ job[r].pc = "done"
        /\ calls[r].invoke = 1
        /\ calls[r].patch = 2 * MAX_RETRIES

ErrorResponse(r) == req[r].pc = "responded" /\ req[r].response.status_code \in {403, 500}

\* C19: no record is orphaned: a request answered with an error has no
\* record in the store, and every record in status "running" has a
\* background job, also when the create landed and its answer was lost.
C19_NoOrphanRecord ==
    /\ \A r \in Requests : ErrorResponse(r) => RecordsOf(r) = {}
    /\ \A i \in DOMAIN store :
          store[i].status = "running" => job[store[i].user_id].pc # "none"

\* C19 as amended: a request answered with an error has no background job,
\* and has a record only if the store applied the create POST while its
\* answer timed out, was lost or could not be read; every "running" record
\* whose create call returned its id has a background job for it.
C19_OrphanOnlyWhenAnswerLost ==
    /\ \A r \in Requests :
          /\ Cardinality(RecordsOf(r)) <= 1
          /\ ErrorResponse(r) =>
                /\ job[r].pc = "none"
                /\ RecordsOf(r) # {} => (calls[r].created.landed /\ ~CreateSucceeded(r))
    /\ \A i \in DOMAIN store :
          (store[i].status = "running" /\ CreateSucceeded(store[i].user_id)) =>
              /\ job[store[i].user_id].pc # "none"
              /\ job[store[i].user_id].record_id = i

C19_Witness ==
    \E r \in Requests, q \in Requests :
        /\ ErrorResponse(r) /\ calls[r].create = 1 /\ RecordsOf(r) = {}
        /\ job[q].pc = "invoking"
        /\ store[job[q].record_id].status = "running"

====
